---- MODULE Spec2Model ----
(***************************************************************************)
(* k-means clustering of one-dimensional "likes" observations, as          *)
(* implemented in src/FinalProject/FinalProject/src/main.rs (and, with     *)
(* identical function bodies, in src/checkin1.rs).                         *)
(*                                                                         *)
(* Numbers.  The program computes in f64.  A model number is an exact      *)
(* rational <<num, den>> (den > 0, lowest terms).  The bounded datasets    *)
(* are multiples of Unit = lcm(1..MaxN), so every sum and every mean the   *)
(* program computes on them is an integer below 2^53: on those runs f64    *)
(* arithmetic is exact and the model is the program.  The worked example   *)
(* of the specification (1, 2, 10, 11) has one inexact intermediate mean   *)
(* (23/3); every comparison made with it has a margin of more than 1.      *)
(* There is one feature per observation (n_features = 1), so an Array1 is  *)
(* modelled by its only component and sqrt((x1 - x2)^2) by |x1 - x2|.       *)
(*                                                                         *)
(* Vectors are functions over 0..len-1, as the program indexes them.       *)
(*                                                                         *)
(* Parameters.  main fixes k (4; 3 in checkin1.rs), max_iters (100) and    *)
(* tolerance (0.0001) as literals; the clustering functions take them as   *)
(* arguments.  Here they are inputs of the run, drawn from small sets that *)
(* contain the reference tolerance, a coarse one, and non-positive values. *)
(***************************************************************************)
EXTENDS Integers, FiniteSets

\* Largest dataset length of the bounded inputs.
MaxN == 3
\* Observation values are Unit * (1..MaxVal).
MaxVal == 4
\* Largest number of clusters of the bounded inputs.
MaxK == 2
\* Largest iteration budget of the bounded inputs.
MaxIters == 2

VARIABLES
    arr,            \* the dataset (Array2 with one column), read-only
    k,              \* number of clusters
    max_iters,      \* iteration budget
    tolerance,      \* convergence tolerance
    centroids,      \* main's `centroids`
    labels,         \* main's `labels`
    new_centroids,  \* main's `new_centroids` of the current/last round
    iter,           \* number of values the range 0..max_iters has yielded
    pc,             \* position in main
    outcome         \* how the run ended

vars == <<arr, k, max_iters, tolerance, centroids, labels, new_centroids,
          iter, pc, outcome>>

----------------------------------------------------------------------------
\* Exact arithmetic.

Abs(x) == IF x < 0 THEN -x ELSE x

RECURSIVE GCD(_, _)
GCD(a, b) == IF b = 0 THEN a ELSE GCD(b, a % b)

RECURSIVE LCMUpTo(_)
LCMUpTo(m) == IF m <= 1 THEN 1
              ELSE LET l == LCMUpTo(m - 1) IN (l * m) \div GCD(l, m)

\* The rational n/d (d > 0) in lowest terms.
Norm(n, d) == LET g == GCD(Abs(n), d) IN <<n \div g, d \div g>>

FromInt(i) == <<i, 1>>
Zero == FromInt(0)

RAdd(x, y) == Norm(x[1] * y[2] + y[1] * x[2], x[2] * y[2])
RSub(x, y) == Norm(x[1] * y[2] - y[1] * x[2], x[2] * y[2])
RDiv(x, c) == Norm(x[1], x[2] * c)
RAbs(x) == <<Abs(x[1]), x[2]>>
RLt(x, y) == x[1] * y[2] < y[1] * x[2]

Len(v) == Cardinality(DOMAIN v)
EmptyVec == [i \in {} |-> Zero]

----------------------------------------------------------------------------
\* The clustering functions.

\* fn distance: sqrt of the sum of squared differences, one component.
distance(p1, p2) == RAbs(RSub(p1, p2))

\* Variant: the last k rows instead of the first k.
initialize_centroids_last(a, kk) ==
    [i \in 0..(kk - 1) |-> a[Len(a) - kk + i]]

\* fn initialize_centroids: the first k rows, in order.  arr.row(i) panics
\* for i >= n; the action Initialize guards that case.
initialize_centroids(a, kk) == [i \in 0..(kk - 1) |-> a[i]]

\* Variant: the later element also wins a tie (last minimum wins).
RECURSIVE MinByFrom_last(_, _, _, _)
MinByFrom_last(point, cs, i, best) ==
    IF i >= Len(cs) THEN best
    ELSE MinByFrom_last(point, cs, i + 1,
                   IF RLt(distance(point, cs[best]), distance(point, cs[i]))
                   THEN best ELSE i)

\* Iterator::min_by is a left fold that keeps the earlier element unless the
\* later one compares strictly less (Ordering::Greater => later).
RECURSIVE MinByFrom(_, _, _, _)
MinByFrom(point, cs, i, best) ==
    IF i >= Len(cs) THEN best
    ELSE MinByFrom(point, cs, i + 1,
                   IF RLt(distance(point, cs[i]), distance(point, cs[best]))
                   THEN i ELSE best)

\* Variant: a one-based cluster index.
find_closest_centroid_one_based(point, cs) == MinByFrom(point, cs, 1, 0) + 1

\* fn find_closest_centroid, for a non-empty centroid vector (on an empty
\* one min_by yields None and unwrap panics; see AssignmentStep).
find_closest_centroid(point, cs) == MinByFrom(point, cs, 1, 0)

\* The first loop of recompute_centroids.  acc[c] is the pair
\* <<new_centroids[c], counts[c]>> of the two vectors the loop updates.
RECURSIVE Accumulate(_, _, _, _)
Accumulate(a, ls, i, acc) ==
    IF i >= Len(a) THEN acc
    ELSE Accumulate(a, ls, i + 1,
           [acc EXCEPT ![ls[i]] = <<RAdd(@[1], a[i]), @[2] + 1>>])

\* Variant: the per-cluster sums are never divided by the counts.
recompute_centroids_nodiv(a, ls, kk) ==
    LET acc == Accumulate(a, ls, 0, [c \in 0..(kk - 1) |-> <<Zero, 0>>])
    IN [i \in 0..(kk - 1) |-> acc[i][1]]

\* fn recompute_centroids: zeros, accumulate, divide where counts[i] > 0.
recompute_centroids(a, ls, kk) ==
    LET acc == Accumulate(a, ls, 0, [c \in 0..(kk - 1) |-> <<Zero, 0>>])
    IN [i \in 0..(kk - 1) |->
          IF acc[i][2] > 0 THEN RDiv(acc[i][1], acc[i][2]) ELSE acc[i][1]]

\* Variant: any instead of all.
has_converged_any(old, new, tol) ==
    \E i \in (DOMAIN old) \cap (DOMAIN new) : RLt(distance(old[i], new[i]), tol)

\* fn has_converged: zip + all.
has_converged(old, new, tol) ==
    \A i \in (DOMAIN old) \cap (DOMAIN new) : RLt(distance(old[i], new[i]), tol)

----------------------------------------------------------------------------
\* Inputs.

Unit == LCMUpTo(MaxN)
Values == {FromInt(Unit * v) : v \in 1..MaxVal}
Datasets == UNION {[0..(n - 1) -> Values] : n \in 0..MaxN}

\* 0.0001, the tolerance of main.
RefTolerance == <<1, 10000>>
\* A coarse tolerance of two grid steps, and a non-positive one.
Tolerances == {Zero, RefTolerance, FromInt(2 * Unit)}

ExampleData == [i \in 0..3 |-> FromInt(<<1, 2, 10, 11>>[i + 1])]
ExampleInput == [arr |-> ExampleData, k |-> 2, max_iters |-> 10,
                 tolerance |-> RefTolerance]

Inputs ==
    {[arr |-> a, k |-> kk, max_iters |-> m, tolerance |-> t] :
        a \in Datasets, kk \in 0..MaxK, m \in 0..MaxIters, t \in Tolerances}
    \cup {ExampleInput}

----------------------------------------------------------------------------
\* main, from the clustering parameters on.

Init ==
    /\ \E in \in Inputs :
          /\ arr = in.arr
          /\ k = in.k
          /\ max_iters = in.max_iters
          /\ tolerance = in.tolerance
    /\ centroids = EmptyVec
    /\ labels = EmptyVec
    /\ new_centroids = EmptyVec
    /\ iter = 0
    /\ pc = "init"
    /\ outcome = "running"

\* let mut centroids = initialize_centroids(&arr, k);
\* let mut labels = vec![0; n_samples];
Initialize ==
    /\ pc = "init"
    /\ IF k > Len(arr)
       THEN /\ pc' = "panicked"
            /\ outcome' = "panic: row index out of bounds"
            /\ UNCHANGED <<centroids, labels>>
       ELSE /\ centroids' = initialize_centroids(arr, k)
            /\ labels' = [i \in 0..(Len(arr) - 1) |-> 0]
            /\ pc' = "loop"
            /\ UNCHANGED outcome
    /\ UNCHANGED <<arr, k, max_iters, tolerance, new_centroids, iter>>

\* Variant: the inclusive range 0..=max_iters.
LoopHead_inclusive ==
    /\ pc = "loop"
    /\ IF iter <= max_iters
       THEN /\ iter' = iter + 1
            /\ pc' = "assign"
            /\ UNCHANGED outcome
       ELSE /\ pc' = "IterationLimitReached"
            /\ outcome' = "Ok"
            /\ UNCHANGED iter
    /\ UNCHANGED <<arr, k, max_iters, tolerance, centroids, labels,
                   new_centroids>>

\* for _ in 0..max_iters
LoopHead ==
    /\ pc = "loop"
    /\ IF iter < max_iters
       THEN /\ iter' = iter + 1
            /\ pc' = "assign"
            /\ UNCHANGED outcome
       ELSE /\ pc' = "IterationLimitReached"
            /\ outcome' = "Ok"
            /\ UNCHANGED iter
    /\ UNCHANGED <<arr, k, max_iters, tolerance, centroids, labels,
                   new_centroids>>

\* for (i, point) in arr.axis_iter(Axis(0)).enumerate() { labels[i] = ... }
AssignmentStep ==
    /\ pc = "assign"
    /\ IF Len(arr) > 0 /\ Len(centroids) = 0
       THEN /\ pc' = "panicked"
            /\ outcome' = "panic: unwrap on None"
            /\ UNCHANGED labels
       ELSE /\ labels' = [i \in 0..(Len(arr) - 1) |->
                            find_closest_centroid(arr[i], centroids)]
            /\ pc' = "update"
            /\ UNCHANGED outcome
    /\ UNCHANGED <<arr, k, max_iters, tolerance, centroids, new_centroids,
                   iter>>

\* let new_centroids = recompute_centroids(&arr, &labels, k);
CentroidUpdate ==
    /\ pc = "update"
    /\ new_centroids' = recompute_centroids(arr, labels, k)
    /\ pc' = "check"
    /\ UNCHANGED <<arr, k, max_iters, tolerance, centroids, labels, iter,
                   outcome>>

\* Variant: the candidate is adopted before the convergence test.
ConvergenceCheck_adopt ==
    /\ pc = "check"
    /\ centroids' = new_centroids
    /\ IF has_converged(centroids, new_centroids, tolerance)
       THEN /\ pc' = "Converged"
            /\ outcome' = "Ok"
       ELSE /\ pc' = "loop"
            /\ UNCHANGED outcome
    /\ UNCHANGED <<arr, k, max_iters, tolerance, labels, new_centroids, iter>>

\* if has_converged(..) { break; }  centroids = new_centroids;
ConvergenceCheck ==
    /\ pc = "check"
    /\ IF has_converged(centroids, new_centroids, tolerance)
       THEN /\ pc' = "Converged"
            /\ outcome' = "Ok"
            /\ UNCHANGED centroids
       ELSE /\ centroids' = new_centroids
            /\ pc' = "loop"
            /\ UNCHANGED outcome
    /\ UNCHANGED <<arr, k, max_iters, tolerance, labels, new_centroids, iter>>

Next ==
    \/ Initialize
    \/ LoopHead
    \/ AssignmentStep
    \/ CentroidUpdate
    \/ ConvergenceCheck

Spec == Init /\ [][Next]_vars

----------------------------------------------------------------------------
\* Vocabulary of the properties.

N == Len(arr)
Clusters == 0..(k - 1)
\* A round of the loop is in progress.
Iterating == pc \in {"assign", "update", "check"}
Terminal == pc \in {"Converged", "IterationLimitReached"}
Positive(x) == RLt(Zero, x)
ValidInput == k >= 1 /\ N >= k /\ max_iters >= 1 /\ Positive(tolerance)

\* j is the lowest index of a centroid of cs nearest to point p.
IsLowestNearest(p, cs, j) ==
    /\ j \in DOMAIN cs
    /\ \A m \in DOMAIN cs : ~RLt(distance(p, cs[m]), distance(p, cs[j]))
    /\ \A m \in DOMAIN cs : m < j => RLt(distance(p, cs[j]), distance(p, cs[m]))

\* Some observation has two distinct centroids at the same least distance.
HasTie(cs, ls) ==
    \E i \in DOMAIN arr : \E m \in DOMAIN cs :
        /\ m # ls[i]
        /\ cs[m] # cs[ls[i]]
        /\ distance(arr[i], cs[m]) = distance(arr[i], cs[ls[i]])

Members(ls, c) == {j \in DOMAIN arr : ls[j] = c}

\* Sum of the (integer) observations at the positions S.
RECURSIVE SumOver(_)
SumOver(S) ==
    IF S = {} THEN 0
    ELSE LET j == CHOOSE j \in S : TRUE IN arr[j][1] + SumOver(S \ {j})

\* c is the arithmetic mean of the observations at S, the zero vector when
\* S is empty.  (Every observation of the inputs is an integer.)
IsMeanOf(c, S) ==
    IF S = {} THEN c = Zero
    ELSE c[2] > 0 /\ c[1] * Cardinality(S) = SumOver(S) * c[2]

----------------------------------------------------------------------------
\* C1: for n >= k (k a cluster count, k >= 1), once the labels are created
\* and in every later state of the run, whatever the number of rounds and
\* the terminal state, there are exactly n labels and each is in [0, k).
C1_LabelsInRange ==
    (k >= 1 /\ N >= k /\ pc # "init") =>
        /\ DOMAIN labels = DOMAIN arr
        /\ \A i \in DOMAIN labels : labels[i] \in Clusters

C1_Witness ==
    /\ pc = "IterationLimitReached"
    /\ iter >= 2
    /\ N > k
    /\ \E i, j \in DOMAIN labels : labels[i] # labels[j]

\* C2: with n < k (the parameters otherwise valid) the run ends in an
\* explicit InsufficientData error, with no centroid set, no labels and no
\* iteration.
C2_InsufficientDataError ==
    (N < k /\ max_iters >= 1 /\ Positive(tolerance) /\ pc # "init") =>
        /\ outcome = "Err(InsufficientData)"
        /\ centroids = EmptyVec
        /\ labels = EmptyVec
        /\ iter = 0

\* C3: a non-positive k, max_iterations or tolerance (on a dataset of at
\* least k observations) is rejected with an InvalidParameter error before
\* initialization: the driver never iterates and builds neither centroids
\* nor labels.
C3_InvalidParameterRejected ==
    (N >= k /\ (k <= 0 \/ max_iters <= 0 \/ ~Positive(tolerance))) =>
        /\ ~Iterating
        /\ pc # "Converged"
        /\ centroids = EmptyVec
        /\ labels = EmptyVec
        /\ pc \notin {"init", "loop"} => outcome = "Err(InvalidParameter)"

\* C4 as stated: in Converged the held centroid set is the candidate of the
\* last round.
C4_AdoptsCandidate ==
    pc = "Converged" => centroids = new_centroids

\* C4 amended: the step into Converged leaves the held centroid set as it
\* was (the set the candidate was compared against), and the candidate is
\* within tolerance of it at every index.
C4_KeepsComparedSet ==
    [][(pc = "check" /\ pc' = "Converged") =>
          /\ centroids' = centroids
          /\ DOMAIN new_centroids' = DOMAIN centroids'
          /\ \A i \in Clusters :
                RLt(distance(centroids'[i], new_centroids'[i]), tolerance)]_vars

C4_Witness ==
    /\ pc = "Converged"
    /\ Positive(tolerance)
    /\ centroids # new_centroids

\* C5: in Converged, an Assignment Step against the held centroid set
\* followed by a Centroid Update gives a set within tolerance of the held
\* one at every index.
C5_FixedPoint ==
    pc = "Converged" =>
        LET ls == [i \in DOMAIN arr |-> find_closest_centroid(arr[i], centroids)]
            again == recompute_centroids(arr, ls, k)
        IN \A i \in Clusters :
              RLt(distance(centroids[i], again[i]), tolerance)

C5_Witness ==
    /\ pc = "Converged"
    /\ k >= 2
    /\ \E i \in Clusters : centroids[i] # new_centroids[i]
    /\ \E i \in Clusters : centroids[i] = new_centroids[i]

\* Progress measure of main: four steps per round, the terminal states last.
Rank ==
    4 * iter + (CASE pc = "init" -> 0
                  [] pc = "assign" -> 0
                  [] pc = "update" -> 1
                  [] pc = "check" -> 2
                  [] pc = "loop" -> 3
                  [] OTHER -> 4)

\* C6: on a valid input the driver ends in exactly one terminal state after
\* at most max_iters rounds.  Termination: main is sequential code, which
\* goes on to its next step unless it has panicked or reached the end; it
\* never panics, every step raises Rank, and Rank never exceeds
\* 4 * max_iters + 4, so the run cannot go on for ever and at most
\* max_iters rounds start.  A successful check ends the run in
\* Converged at once; a failed check adopts the candidate; the check failed
\* in round max_iters leads to IterationLimitReached, which holds that last
\* candidate and the labels it was computed from; no step leaves a terminal
\* state.
C6_Terminates ==
    /\ [](ValidInput =>
            /\ pc # "panicked"
            /\ iter <= max_iters
            /\ Rank <= 4 * max_iters + 4
            /\ pc = "IterationLimitReached" =>
                  /\ iter = max_iters
                  /\ centroids = new_centroids
                  /\ centroids = recompute_centroids(arr, labels, k))
    /\ [][ValidInput =>
            /\ Rank' > Rank
            /\ (pc = "check" /\ has_converged(centroids, new_centroids, tolerance))
                  => pc' = "Converged"
            /\ (pc = "check" /\ ~has_converged(centroids, new_centroids, tolerance))
                  => (pc' = "loop" /\ centroids' = new_centroids /\ labels' = labels)
            /\ (pc = "loop" /\ iter = max_iters)
                  => (pc' = "IterationLimitReached"
                      /\ centroids' = centroids /\ labels' = labels)
            /\ (pc = "loop" /\ iter < max_iters) => pc' = "assign"
            /\ ~Terminal]_vars

C6_Witness ==
    /\ ValidInput
    /\ pc = "IterationLimitReached"
    /\ iter = max_iters
    /\ iter >= 2
    /\ k >= 2

\* C7: on 1, 2, 10, 11 with k = 2, ten iterations and tolerance 0.0001 the
\* initial centroids are 1 and 2 and the run ends, before the cap, in
\* Converged with centroids 3/2 and 21/2 and labels 0, 0, 1, 1.
IsExample ==
    /\ arr = ExampleData
    /\ k = 2
    /\ max_iters = 10
    /\ tolerance = RefTolerance

C8_AssignmentStep ==
    [][(pc = "assign" /\ pc' = "update") =>
          /\ DOMAIN labels' = DOMAIN arr
          /\ \A i \in DOMAIN arr : IsLowestNearest(arr[i], centroids, labels'[i])
          /\ UNCHANGED <<arr, centroids, new_centroids, k, max_iters,
                         tolerance>>]_vars

C8_Witness ==
    /\ pc = "update"
    /\ k >= 2
    /\ HasTie(centroids, labels)

\* C9: the Centroid Update yields exactly k centroids, centroid i the mean
\* of the observations labelled i and the zero vector for a cluster without
\* members, and leaves the held centroid set as it was.
C9_CentroidUpdate ==
    [][(pc = "update" /\ pc' = "check") =>
          /\ DOMAIN new_centroids' = Clusters
          /\ \A c \in Clusters : IsMeanOf(new_centroids'[c], Members(labels, c))
          /\ UNCHANGED <<arr, centroids, labels>>]_vars

C9_Witness ==
    /\ pc = "check"
    /\ \E c \in Clusters : Members(labels, c) = {} /\ centroids[c] # Zero
                           /\ new_centroids[c] = Zero
    /\ \E c \in Clusters : \E i, j \in Members(labels, c) : arr[i] # arr[j]

\* C10: in Converged every label is the lowest index of a centroid, of the
\* held centroid set, nearest to its observation.
C10_LabelsMatchHeldCentroids ==
    pc = "Converged" =>
        \A i \in DOMAIN arr : IsLowestNearest(arr[i], centroids, labels[i])

C10_Witness ==
    /\ pc = "Converged"
    /\ k >= 2
    /\ centroids # new_centroids
    /\ HasTie(centroids, labels)

====
